---- MODULE Spec2Model ----
(***************************************************************************)
(* A model of generator/generator.py: the compiler from a nested-list      *)
(* filter expression to a SQL statement.                                   *)
(*                                                                         *)
(* Python values are records tagged by kind: a str, an int, a bool, a list *)
(* (with its items) or None.  SQL text is a sequence of tokens, so that    *)
(* f-string formatting and str.join are concatenations and parentheses,    *)
(* quotes and spaces can be counted.  A call returns either a text or the  *)
(* exception it raised.  A where-operand of and/or/not is a list in every  *)
(* query drawn here; a scalar there lies outside the modelled inputs.      *)
(***************************************************************************)
EXTENDS Integers, Sequences, FiniteSets, TLC

VARIABLES dialect, fields, query, pc, where_clause, result

vars == <<dialect, fields, query, pc, where_clause, result>>

----------------------------------------------------------------------------
(* Python values *)

NoneV == [kind |-> "none"]
StrV(s) == [kind |-> "str", s |-> s]
IntV(n) == [kind |-> "int", n |-> n]
BoolV(b) == [kind |-> "bool", b |-> b]
ListV(items) == [kind |-> "list", items |-> items]

IsStr(v, s) == v.kind = "str" /\ v.s = s

(* The outcome of a call: the text returned, or the exception raised. *)
Return(text) == [ok |-> TRUE, text |-> text, err |-> ""]
Raise(err) == [ok |-> FALSE, text |-> <<>>, err |-> err]

(* str(arg) of a scalar, as one token *)
PyStr(arg) ==
  CASE arg.kind = "str" -> arg.s
    [] arg.kind = "int" -> ToString(arg.n)
    [] arg.kind = "bool" -> IF arg.b THEN "True" ELSE "False"
    [] OTHER -> "None"

(* The int a bool or int stands for as a dict key (True == 1, False == 0). *)
PyInt(arg) ==
  IF arg.kind = "bool" THEN (IF arg.b THEN 1 ELSE 0) ELSE arg.n

(* The quote characters, each one token.  The backquote is written out by  *)
(* name, as the parser does not take it inside a string.                   *)
BACKTICK == "<backquote>"
DQUOTE == "\""
SQUOTE == "'"

(* sep.join(parts) *)
RECURSIVE Join(_, _)
Join(sep, parts) ==
  IF parts = <<>> THEN <<>>
  ELSE IF Len(parts) = 1 THEN parts[1]
  ELSE parts[1] \o sep \o Join(sep, Tail(parts))

(* part.strip() is non-empty *)
Strip(part) == \E i \in 1..Len(part) : part[i] # " "

(* [p for p in parts if p.strip()] *)
RECURSIVE NonBlank(_)
NonBlank(parts) ==
  IF parts = <<>> THEN <<>>
  ELSE IF Strip(parts[1]) THEN <<parts[1]>> \o NonBlank(Tail(parts))
  ELSE NonBlank(Tail(parts))

----------------------------------------------------------------------------
(* generator.py *)

NIL == "nil"

Dialects == {"mysql", "postgres", "sqlserver"}

is_correct_field(arg) ==
  /\ Len(arg.items) = 2
  /\ IsStr(arg.items[1], "field")
  /\ arg.items[2].kind \in {"int", "bool"}

operator_to_clause(operator) ==
  CASE operator = "=" -> Return(<<"IN">>)
    [] operator = "!=" -> Return(<<"NOT", " ", "IN">>)
    [] operator = "is-empty" -> Return(<<"IS", " ", "NULL">>)
    [] operator = "not-empty" -> Return(<<"IS", " ", "NOT", " ", "NULL">>)
    [] OTHER -> Raise("OperatorDoesNotExist")

(* As surround_clause, wrapping in two pairs. *)
surround_clause_twice(clause) == <<"(", "(">> \o clause \o <<")", ")">>

surround_clause(clause) == <<"(">> \o clause \o <<")">>

(* As surround_identifier, without the quotes. *)
surround_identifier_bare(name, d) == <<name>>

surround_identifier(name, d) ==
  IF d = "mysql" THEN <<BACKTICK, name, BACKTICK>>
  ELSE <<DQUOTE, name, DQUOTE>>

extract_field(arg, f, d) ==
  IF arg.kind = "list"
  THEN IF ~is_correct_field(arg) THEN Raise("IncorrectFieldFormat")
       ELSE LET field_id == PyInt(arg.items[2])
            IN IF field_id \notin DOMAIN f THEN Raise("FieldDoesNotExist")
               ELSE Return(surround_identifier(f[field_id], d))
  ELSE IF arg.kind = "str" /\ arg.s # NIL
       THEN Return(<<SQUOTE, arg.s, SQUOTE>>)
       ELSE Return(<<PyStr(arg)>>)

build_null_clause(operator, arg, f, d) ==
  LET field == extract_field(arg, f, d)
      null_clause == operator_to_clause(operator)
  IN IF ~field.ok THEN field
     ELSE IF ~null_clause.ok THEN null_clause
     ELSE Return(field.text \o <<" ">> \o null_clause.text)

build_comparison_clause(operator, left_arg, right_arg, f, d) ==
  LET left == extract_field(left_arg, f, d)
      right == extract_field(right_arg, f, d)
  IN IF ~left.ok THEN left
     ELSE IF ~right.ok THEN right
     ELSE IF left.text # <<NIL>> /\ right.text # <<NIL>>
          THEN Return(left.text \o <<" ", operator, " ">> \o right.text)
          ELSE LET not_nil_arg == IF left.text # <<NIL>> THEN left_arg
                                  ELSE right_arg
                   new_operator == IF operator = "=" THEN "is-empty"
                                   ELSE "not-empty"
               IN build_null_clause(new_operator, not_nil_arg, f, d)

(* [extract_field(arg) for arg in args]: the texts, or the first exception *)
RECURSIVE extract_fields(_, _, _)
extract_fields(args, f, d) ==
  IF args = <<>> THEN [ok |-> TRUE, texts |-> <<>>, err |-> ""]
  ELSE LET head == extract_field(args[1], f, d)
       IN IF ~head.ok THEN [ok |-> FALSE, texts |-> <<>>, err |-> head.err]
          ELSE LET rest == extract_fields(Tail(args), f, d)
               IN IF ~rest.ok THEN rest
                  ELSE [ok |-> TRUE, texts |-> <<head.text>> \o rest.texts,
                        err |-> ""]

(* As in_args_clause, listing the values last to first. *)
in_args_clause_reversed(tail_fields) ==
  LET n == Len(tail_fields)
  IN surround_clause(Join(<<",", " ">>,
                          [i \in 1..n |-> tail_fields[n + 1 - i]]))

in_args_clause(tail_fields) ==
  surround_clause(Join(<<",", " ">>, tail_fields))

build_in_clause(operator, args, f, d) ==
  IF args = <<>> THEN Raise("IndexError")
  ELSE LET head_field == extract_field(args[1], f, d)
           tail_fields == extract_fields(Tail(args), f, d)
           in_clause == operator_to_clause(operator)
       IN IF ~head_field.ok THEN head_field
          ELSE IF ~tail_fields.ok THEN Raise(tail_fields.err)
          ELSE IF ~in_clause.ok THEN in_clause
          ELSE Return(head_field.text \o <<" ">> \o in_clause.text
                      \o <<" ">> \o in_args_clause(tail_fields.texts))

Upper(operator) == IF operator = "and" THEN "AND" ELSE "OR"

(* As join_clause_parts, joining the parts last to first. *)
join_clause_parts_reversed(operator, clause_parts) ==
  LET n == Len(clause_parts)
  IN Join(<<" ", Upper(operator), " ">>,
          [i \in 1..n |-> clause_parts[n + 1 - i]])

join_clause_parts(operator, clause_parts) ==
  Join(<<" ", Upper(operator), " ">>, clause_parts)

RECURSIVE build_where_clause(_, _, _)
RECURSIVE build_clause_parts(_, _, _)

(* the loop of build_where_clause over the operands of and/or *)
build_clause_parts(d, f, operands) ==
  IF operands = <<>> THEN [ok |-> TRUE, texts |-> <<>>, err |-> ""]
  ELSE LET head == build_where_clause(d, f, operands[1])
       IN IF ~head.ok THEN [ok |-> FALSE, texts |-> <<>>, err |-> head.err]
          ELSE LET rest == build_clause_parts(d, f, Tail(operands))
               IN IF ~rest.ok THEN rest
                  ELSE [ok |-> TRUE, texts |-> <<head.text>> \o rest.texts,
                        err |-> ""]

build_where_clause(d, f, q) ==
  IF q.kind = "none" THEN Return(<<>>)
  ELSE IF q.kind # "list" THEN Raise("TypeError")
  ELSE IF q.items = <<>> THEN Raise("IndexError")
  ELSE
    LET operator == IF q.items[1].kind = "str" THEN q.items[1].s ELSE ""
        operands == Tail(q.items)
        n == Len(operands)
        Surround(r) == IF r.ok THEN Return(surround_clause(r.text)) ELSE r
    IN
    IF operator \in {"and", "or"}
    THEN IF n = 1
         THEN (* operands[1] of a one-element list *)
              IF n > 1 THEN Surround(build_where_clause(d, f, operands[2]))
              ELSE Raise("IndexError")
         ELSE LET parts == build_clause_parts(d, f, operands)
              IN IF ~parts.ok THEN Raise(parts.err)
                 ELSE Surround(Return(join_clause_parts(operator, parts.texts)))
    ELSE IF operator = "not"
    THEN IF n < 1 THEN Raise("IndexError")
         ELSE LET inner == build_where_clause(d, f, operands[1])
              IN IF ~inner.ok THEN inner
                 ELSE Surround(Return(<<"NOT", " ">> \o inner.text))
    ELSE IF operator \in {"<", ">"}
    THEN IF n < 2 THEN Raise("IndexError")
         ELSE Surround(build_comparison_clause(operator, operands[1],
                                               operands[2], f, d))
    ELSE IF operator \in {"=", "!="}
    THEN IF n = 2
         THEN Surround(build_comparison_clause(operator, operands[1],
                                               operands[2], f, d))
         ELSE Surround(build_in_clause(operator, operands, f, d))
    ELSE IF operator \in {"is-empty", "not-empty"}
    THEN IF n < 1 THEN Raise("IndexError")
         ELSE Surround(build_null_clause(operator, operands[1], f, d))
    ELSE Raise("OperatorDoesNotExist")

(* As build_limit_clause, with LIMIT n for sqlserver too. *)
build_limit_clause_trailing(d, limit) ==
  IF limit.kind = "none" THEN <<>> ELSE <<"LIMIT", " ", PyStr(limit)>>

build_limit_clause(d, limit) ==
  IF limit.kind = "none" THEN <<>>
  ELSE IF d = "sqlserver" THEN <<"TOP", "(", PyStr(limit), ")">>
  ELSE <<"LIMIT", " ", PyStr(limit)>>

(* generate_sql, given what build_where_clause returned or raised *)
assemble(d, q, w) ==
  IF ~w.ok THEN w
  ELSE
    LET limit_clause == build_limit_clause(d, q.limit)
        where_text == IF w.text # <<>> THEN <<"WHERE", " ">> \o w.text
                      ELSE w.text
        query_parts ==
          IF d = "sqlserver"
          THEN << <<"SELECT">>, limit_clause, <<"*", " ", "FROM", " ", "data">>,
                  where_text >>
          ELSE << <<"SELECT", " ", "*", " ", "FROM", " ", "data">>,
                  where_text, limit_clause >>
    IN Return(Join(<<" ">>, NonBlank(query_parts)) \o <<";">>)

generate_sql(d, f, q) == assemble(d, q, build_where_clause(d, f, q.where))

----------------------------------------------------------------------------
(* The calls checked: every dialect string, field table, where-expression  *)
(* and limit drawn from the sets below.                                    *)

MaxOperands == 3
MaxNodes == 4
MaxLimit == 1

(* ['field', id] *)
Field(id) == ListV(<<StrV("field"), IntV(id)>>)

(* [operator, *operands] *)
Op(operator, operands) == ListV(<<StrV(operator)>> \o operands)

SeqsUpTo(S, n) == UNION {[1..k -> S] : k \in 0..n}

(* The dialect strings a caller passes: the three of the enum and one not  *)
(* in it.                                                                  *)
DialectInputs == Dialects \cup {"oracle"}

(* The tests' table, a table whose one column is named nil, and no table. *)
TestFields == <<"id", "name", "date_joined", "age">>
NilFields == <<"nil">>
FieldTables == {<<>>, NilFields, TestFields}

Limits == {NoneV} \cup {IntV(n) : n \in 0..MaxLimit}

(* Operands of a comparison: field references (one malformed), the NULL    *)
(* sentinel, a string and a number.                                        *)
Operands ==
  {Field(1), Field(2), StrV(NIL), StrV("cam"), IntV(5),
   ListV(<<StrV("field"), StrV("x")>>)}

(* One operation over operands, of every arity from none. *)
FlatQueries ==
  {Op(o, args) : o \in {"=", "!="}, args \in SeqsUpTo(Operands, MaxOperands)}
  \cup {Op(o, args) : o \in {"<", ">"}, args \in SeqsUpTo(Operands, 2)}
  \cup {Op(o, args) : o \in {"is-empty", "not-empty", "like"},
                      args \in SeqsUpTo(Operands, 1)}
  \cup {Op("and", <<>>), Op("or", <<>>), Op("not", <<>>), ListV(<<>>),
        ListV(<<IntV(5), Field(1)>>), Op("is-empty", <<BoolV(TRUE)>>),
        Op("=", <<ListV(<<StrV("field"), BoolV(TRUE)>>), BoolV(FALSE)>>)}

(* The operations at the leaves of the nested expressions. *)
Leaves ==
  {Op("<", <<Field(1), IntV(5)>>), Op("!=", <<Field(2), StrV(NIL)>>),
   Op("like", <<Field(1), StrV("cam")>>)}

RECURSIVE Trees(_)
RECURSIVE Forests(_)

(* The nested expressions of exactly n operations: a leaf, a not of one    *)
(* expression, an and/or of one or more.                                   *)
Trees(n) ==
  IF n = 1 THEN Leaves
  ELSE {Op("not", <<t>>) : t \in Trees(n - 1)}
       \cup {Op(o, ts) : o \in {"and", "or"}, ts \in Forests(n - 1)}

(* The non-empty sequences of expressions of n operations in all. *)
Forests(n) ==
  IF n < 1 THEN {}
  ELSE {<<t>> : t \in Trees(n)}
       \cup UNION {{<<t>> \o ts : t \in Trees(i), ts \in Forests(n - i)} :
                   i \in 1..(n - 1)}

NestedQueries == UNION {Trees(n) : n \in 1..MaxNodes}

(* The where-expressions of test_generator.py. *)
TestQueries ==
  {Op("=", <<Field(2), StrV("cam")>>),
   Op("=", <<Field(3), StrV(NIL)>>),
   Op(">", <<Field(4), IntV(35)>>),
   Op("and", <<Op("<", <<Field(1), IntV(5)>>),
               Op("=", <<Field(2), StrV("joe")>>)>>),
   Op("or", <<Op("!=", <<Field(3), StrV("2015-11-01")>>),
              Op("=", <<Field(1), IntV(456)>>)>>),
   Op("and", <<Op("!=", <<Field(3), StrV(NIL)>>),
               Op("or", <<Op(">", <<Field(4), IntV(25)>>),
                          Op("=", <<Field(2), StrV("Jerry")>>)>>)>>),
   Op("=", <<Field(4), IntV(25), IntV(26), IntV(27)>>),
   Op("is-empty", <<Field(4)>>),
   Op("not-empty", <<Field(4)>>),
   Op("not", <<Op("=", <<Field(4), IntV(25)>>)>>),
   Op("not", <<Op("and", <<Op("not", <<Op("<", <<Field(1), IntV(5)>>)>>),
                           Op("=", <<Field(2), StrV("joe")>>)>>)>>)}

Wheres == {NoneV} \cup FlatQueries \cup NestedQueries \cup TestQueries

NoResult == Raise("")

Init ==
  /\ dialect \in DialectInputs
  /\ fields \in FieldTables
  /\ query \in [where : Wheres, limit : Limits]
  /\ pc = "call"
  /\ where_clause = NoResult
  /\ result = NoResult

(* One call of generate_sql: it returns the statement or raises. *)
GenerateSql ==
  /\ pc = "call"
  /\ where_clause' = build_where_clause(dialect, fields, query.where)
  /\ result' = assemble(dialect, query, where_clause')
  /\ pc' = IF result'.ok THEN "returned" ELSE "raised"
  /\ UNCHANGED <<dialect, fields, query>>

Next == GenerateSql

Spec == Init /\ [][Next]_vars

----------------------------------------------------------------------------
(* What the claims speak of *)

Called == pc # "call"

(* The top-level expression is [o, *operands] with o one of ops. *)
IsOperation(q, ops) ==
  /\ q.kind = "list"
  /\ q.items # <<>>
  /\ q.items[1].kind = "str"
  /\ q.items[1].s \in ops

OperatorOf(q) == q.items[1].s
OperandsOf(q) == Tail(q.items)

IsNilLiteral(arg) == arg.kind = "str" /\ arg.s = NIL

(* The first exception among the outcomes rs, in their order. *)
FirstRaised(rs) ==
  LET i == CHOOSE k \in 1..Len(rs) :
             ~rs[k].ok /\ \A j \in 1..(k - 1) : rs[j].ok
  IN Raise(rs[i].err)

AllReturned(rs) == \A k \in 1..Len(rs) : rs[k].ok

(* texts[1] sep texts[2] sep ... texts[n], in that order *)
RECURSIVE Listed(_, _, _)
Listed(rs, sep, n) ==
  IF n = 0 THEN <<>>
  ELSE IF n = 1 THEN rs[1].text
  ELSE Listed(rs, sep, n - 1) \o sep \o rs[n].text

(* C1: a two-operand = or != none of whose operands is the literal "nil"   *)
(* compiles to (left op right); with the literal "nil" on either side it   *)
(* compiles, clause and statement, exactly as is-empty (for =) or          *)
(* not-empty (for !=) of the other operand.  Only the literal counts: a    *)
(* field reference is never the sentinel, whatever its column is named.    *)
C1_EqualityNullRule ==
  (Called /\ IsOperation(query.where, {"=", "!="})
          /\ Len(OperandsOf(query.where)) = 2) =>
    LET o == OperatorOf(query.where)
        l == OperandsOf(query.where)[1]
        r == OperandsOf(query.where)[2]
        rs == <<extract_field(l, fields, dialect),
                extract_field(r, fields, dialect)>>
    IN IF ~IsNilLiteral(l) /\ ~IsNilLiteral(r)
       THEN where_clause =
              IF AllReturned(rs)
              THEN Return(<<"(">> \o rs[1].text \o <<" ", o, " ">>
                          \o rs[2].text \o <<")">>)
              ELSE FirstRaised(rs)
       ELSE LET other == IF IsNilLiteral(l) THEN r ELSE l
                null_check == Op(IF o = "=" THEN "is-empty" ELSE "not-empty",
                                 <<other>>)
            IN /\ where_clause = build_where_clause(dialect, fields, null_check)
               /\ result = generate_sql(dialect, fields,
                                        [query EXCEPT !.where = null_check])

(* C1 witness: ["=", "nil", ["field", 1]] over a column named nil returns  *)
(* ("nil" IS NULL).                                                        *)
C1_Witness ==
  /\ pc = "returned"
  /\ dialect = "postgres"
  /\ fields = NilFields
  /\ query.where = Op("=", <<StrV(NIL), Field(1)>>)
  /\ where_clause.text =
       <<"(", DQUOTE, "nil", DQUOTE, " ", "IS", " ", "NULL", ")">>

(* C2: a two-operand < or > always compiles to (left op right), never to a *)
(* null check, also when an operand is the literal "nil".                  *)
C2_StrictComparisonNeverRewritten ==
  (Called /\ IsOperation(query.where, {"<", ">"})
          /\ Len(OperandsOf(query.where)) = 2) =>
    LET o == OperatorOf(query.where)
        rs == <<extract_field(OperandsOf(query.where)[1], fields, dialect),
                extract_field(OperandsOf(query.where)[2], fields, dialect)>>
    IN where_clause =
         IF AllReturned(rs)
         THEN Return(<<"(">> \o rs[1].text \o <<" ", o, " ">>
                     \o rs[2].text \o <<")">>)
         ELSE FirstRaised(rs)

(* C3: and/or of exactly one operand that compiles raises nothing and      *)
(* compiles to what that operand compiles to.                              *)
C3_SingleOperandConnective ==
  (Called /\ IsOperation(query.where, {"and", "or"})
          /\ Len(OperandsOf(query.where)) = 1
          /\ build_where_clause(dialect, fields,
                                OperandsOf(query.where)[1]).ok) =>
    where_clause = build_where_clause(dialect, fields,
                                      OperandsOf(query.where)[1])

(* C4: = or != of three or more operands compiles to                       *)
(* (subject IN (v1, v2, ...)), NOT IN for !=, every operand resolved on    *)
(* its own and the values listed in their given order.                     *)
C4_MembershipRule ==
  (Called /\ IsOperation(query.where, {"=", "!="})
          /\ Len(OperandsOf(query.where)) >= 3) =>
    LET args == OperandsOf(query.where)
        rs == [k \in 1..Len(args) |-> extract_field(args[k], fields, dialect)]
        values == Tail(rs)
        keyword == IF OperatorOf(query.where) = "=" THEN <<"IN">>
                   ELSE <<"NOT", " ", "IN">>
    IN where_clause =
         IF AllReturned(rs)
         THEN Return(<<"(">> \o rs[1].text \o <<" ">> \o keyword \o <<" ", "(">>
                     \o Listed(values, <<",", " ">>, Len(values))
                     \o <<")", ")">>)
         ELSE FirstRaised(rs)

(* C4 witness: ["=", ["field", 4], 25, 26, 27] returns                     *)
(* ("age" IN (25, 26, 27)).                                                *)
C4_Witness ==
  /\ pc = "returned"
  /\ dialect = "postgres"
  /\ fields = TestFields
  /\ query.where = Op("=", <<Field(4), IntV(25), IntV(26), IntV(27)>>)
  /\ where_clause.text =
       <<"(", DQUOTE, "age", DQUOTE, " ", "IN", " ", "(", "25", ",", " ",
         "26", ",", " ", "27", ")", ")">>

(* C5: the statement returned is SELECT, then TOP(n) for sqlserver with a  *)
(* limit, then * FROM data, then WHERE and the clause when there is one,   *)
(* then LIMIT n for any other dialect with a limit, one space between      *)
(* them, and one ; at the end; with neither where nor limit it is          *)
(* SELECT * FROM data; in every dialect.                                   *)
C5_StatementAssembly ==
  pc = "returned" =>
    LET limited == query.limit.kind # "none"
        n == ToString(query.limit.n)
    IN /\ result.text =
            <<"SELECT">>
            \o (IF limited /\ dialect = "sqlserver"
                THEN <<" ", "TOP", "(", n, ")">> ELSE <<>>)
            \o <<" ", "*", " ", "FROM", " ", "data">>
            \o (IF where_clause.text # <<>>
                THEN <<" ", "WHERE", " ">> \o where_clause.text ELSE <<>>)
            \o (IF limited /\ dialect # "sqlserver"
                THEN <<" ", "LIMIT", " ", n>> ELSE <<>>)
            \o <<";">>
       /\ (query.where = NoneV /\ ~limited) =>
            result.text = <<"SELECT", " ", "*", " ", "FROM", " ", "data", ";">>

(* C5 witness: sqlserver with a where and limit 1 returns                  *)
(* SELECT TOP(1) * FROM data WHERE ("name" = 'cam');                       *)
C5_Witness ==
  /\ pc = "returned"
  /\ dialect = "sqlserver"
  /\ fields = TestFields
  /\ query = [where |-> Op("=", <<Field(2), StrV("cam")>>), limit |-> IntV(1)]
  /\ result.text =
       <<"SELECT", " ", "TOP", "(", "1", ")", " ", "*", " ", "FROM", " ",
         "data", " ", "WHERE", " ", "(", DQUOTE, "name", DQUOTE, " ", "=",
         " ", SQUOTE, "cam", SQUOTE, ")", ";">>

(* C6: and/or of two or more operands compiles each operand in turn and    *)
(* returns the results in the operands' order, AND / OR between them, in   *)
(* one pair of parentheses; the first operand that raises ends the call.   *)
C6_ConnectiveOrder ==
  (Called /\ IsOperation(query.where, {"and", "or"})
          /\ Len(OperandsOf(query.where)) >= 2) =>
    LET operands == OperandsOf(query.where)
        rs == [k \in 1..Len(operands) |->
                 build_where_clause(dialect, fields, operands[k])]
        word == IF OperatorOf(query.where) = "and" THEN "AND" ELSE "OR"
    IN where_clause =
         IF AllReturned(rs)
         THEN Return(<<"(">> \o Listed(rs, <<" ", word, " ">>, Len(rs))
                     \o <<")">>)
         ELSE FirstRaised(rs)

(* C6 witness: the nested query of the tests returns                       *)
(* (("date_joined" IS NOT NULL) AND (("age" > 25) OR ("name" = 'Jerry'))). *)
C6_Witness ==
  /\ pc = "returned"
  /\ dialect = "postgres"
  /\ fields = TestFields
  /\ query.where =
       Op("and", <<Op("!=", <<Field(3), StrV(NIL)>>),
                   Op("or", <<Op(">", <<Field(4), IntV(25)>>),
                              Op("=", <<Field(2), StrV("Jerry")>>)>>)>>)
  /\ where_clause.text =
       <<"(", "(", DQUOTE, "date_joined", DQUOTE, " ", "IS", " ", "NOT", " ",
         "NULL", ")", " ", "AND", " ", "(", "(", DQUOTE, "age", DQUOTE, " ",
         ">", " ", "25", ")", " ", "OR", " ", "(", DQUOTE, "name", DQUOTE,
         " ", "=", " ", SQUOTE, "Jerry", SQUOTE, ")", ")", ")">>

(* The operators the compiler recognizes, and those whose operands are     *)
(* expressions themselves.                                                 *)
RecognizedOperators ==
  {"and", "or", "not", "<", ">", "=", "!=", "is-empty", "not-empty"}
Connectives == {"and", "or", "not"}

IsFieldRef(arg) == arg.kind = "list" /\ is_correct_field(arg)

RECURSIVE WellFormed(_)
RECURSIVE HasUnknownOperator(_)
RECURSIVE HasMissingField(_)
RECURSIVE HasSingleOperandConnective(_)

(* An operation with the operand count of its operator, whose operands are *)
(* operations (under and/or/not) or scalars and field references           *)
(* (elsewhere); any operands under an operator that is not recognized.     *)
WellFormed(q) ==
  /\ q.kind = "list"
  /\ q.items # <<>>
  /\ q.items[1].kind = "str"
  /\ LET o == OperatorOf(q)
         args == OperandsOf(q)
         n == Len(args)
     IN CASE o \in {"and", "or"} ->
               n >= 1 /\ \A k \in 1..n : WellFormed(args[k])
          [] o = "not" -> n = 1 /\ WellFormed(args[1])
          [] o \in {"<", ">"} ->
               n = 2 /\ \A k \in 1..n : args[k].kind = "list" => IsFieldRef(args[k])
          [] o \in {"=", "!="} ->
               n >= 2 /\ \A k \in 1..n : args[k].kind = "list" => IsFieldRef(args[k])
          [] o \in {"is-empty", "not-empty"} ->
               n = 1 /\ \A k \in 1..n : args[k].kind = "list" => IsFieldRef(args[k])
          [] OTHER -> TRUE

(* Some operation of the well-formed q, at any depth, has an operator that *)
(* is not recognized.                                                      *)
HasUnknownOperator(q) ==
  \/ OperatorOf(q) \notin RecognizedOperators
  \/ /\ OperatorOf(q) \in Connectives
     /\ \E k \in 1..Len(OperandsOf(q)) : HasUnknownOperator(OperandsOf(q)[k])

(* Some recognized operation of the well-formed q, at any depth, has a     *)
(* reference to a field the table lacks.                                   *)
HasMissingField(q) ==
  IF OperatorOf(q) \in Connectives
  THEN \E k \in 1..Len(OperandsOf(q)) : HasMissingField(OperandsOf(q)[k])
  ELSE /\ OperatorOf(q) \in RecognizedOperators
       /\ \E k \in 1..Len(OperandsOf(q)) :
            /\ IsFieldRef(OperandsOf(q)[k])
            /\ PyInt(OperandsOf(q)[k].items[2]) \notin DOMAIN fields

HasSingleOperandConnective(q) ==
  /\ OperatorOf(q) \in Connectives
  /\ \/ OperatorOf(q) \in {"and", "or"} /\ Len(OperandsOf(q)) = 1
     \/ \E k \in 1..Len(OperandsOf(q)) :
          HasSingleOperandConnective(OperandsOf(q)[k])

ErrorOutcome ==
  /\ pc = "raised"
  /\ result.text = <<>>
  /\ result.err \in {"FieldDoesNotExist", "OperatorDoesNotExist"}
  /\ ~HasUnknownOperator(query.where) => result.err = "FieldDoesNotExist"
  /\ ~HasMissingField(query.where) => result.err = "OperatorDoesNotExist"

(* C7: a call whose expression holds, at any depth, a reference to a field *)
(* the table lacks or an operator that is not recognized raises            *)
(* FieldDoesNotExist or OperatorDoesNotExist (the one whose cause is       *)
(* there) and returns no text.                                             *)
C7_ErrorOutcomes ==
  (Called /\ WellFormed(query.where)
          /\ (HasUnknownOperator(query.where) \/ HasMissingField(query.where)))
    => ErrorOutcome

(* C7 holds of every call whose expression has no and/or of one operand:   *)
(* the calls that break it are those of C3.                                *)
C7_ExceptUnderSingleOperandConnective ==
  (Called /\ WellFormed(query.where)
          /\ ~HasSingleOperandConnective(query.where)
          /\ (HasUnknownOperator(query.where) \/ HasMissingField(query.where)))
    => ErrorOutcome

(* C8: a call with a dialect string that is not one of mysql, postgres,    *)
(* sqlserver raises and returns no statement.                              *)
C8_DialectValidated ==
  (Called /\ dialect \notin Dialects) => pc = "raised"

RECURSIVE StringLiterals(_)

(* The string operands of the operations of a well-formed q. *)
StringLiterals(q) ==
  IF OperatorOf(q) \in Connectives
  THEN UNION {StringLiterals(OperandsOf(q)[k]) : k \in 1..Len(OperandsOf(q))}
  ELSE {OperandsOf(q)[k].s :
          k \in {j \in 1..Len(OperandsOf(q)) : OperandsOf(q)[j].kind = "str"}}

QuotedBy(text, i, quote) ==
  /\ 1 < i
  /\ i < Len(text)
  /\ text[i - 1] = quote
  /\ text[i + 1] = quote

(* C9: in a statement returned the token nil is never an operand: it       *)
(* stands only between identifier quotes, as the name of a column, and     *)
(* never between single quotes; every other string literal stands between  *)
(* single quotes.                                                          *)
C9_SentinelNeverInOutput ==
  (pc = "returned" /\ WellFormed(query.where)) =>
    \A i \in 1..Len(result.text) :
      /\ result.text[i] = NIL =>
           \/ QuotedBy(result.text, i, DQUOTE)
           \/ QuotedBy(result.text, i, BACKTICK)
      /\ result.text[i] \in StringLiterals(query.where) \ {NIL} =>
           QuotedBy(result.text, i, SQUOTE)

(* Parentheses of a text *)
Opens(text, i) == Cardinality({k \in 1..i : text[k] = "("})
Closes(text, i) == Cardinality({k \in 1..i : text[k] = ")"})
Depth(text, i) == Opens(text, i) - Closes(text, i)

Balanced(text) ==
  /\ \A i \in 1..Len(text) : Depth(text, i) >= 0
  /\ Depth(text, Len(text)) = 0

(* The first token opens the parenthesis that the last token closes. *)
Enclosed(text) ==
  /\ Len(text) >= 2
  /\ text[1] = "("
  /\ text[Len(text)] = ")"
  /\ \A i \in 1..(Len(text) - 1) : Depth(text, i) >= 1

RECURSIVE Operations(_)
RECURSIVE Memberships(_)

(* The operations of q that a compile visits. *)
Operations(q) ==
  IF OperatorOf(q) \in {"and", "or"}
  THEN LET counts == [k \in 1..Len(OperandsOf(q)) |->
                        Operations(OperandsOf(q)[k])]
           Sum[k \in 0..Len(counts)] ==
             IF k = 0 THEN 0 ELSE Sum[k - 1] + counts[k]
       IN 1 + Sum[Len(counts)]
  ELSE IF OperatorOf(q) = "not" THEN 1 + Operations(OperandsOf(q)[1])
  ELSE 1

(* Those of them that compile to IN (...) or NOT IN (...). *)
Memberships(q) ==
  IF OperatorOf(q) \in {"and", "or"}
  THEN LET counts == [k \in 1..Len(OperandsOf(q)) |->
                        Memberships(OperandsOf(q)[k])]
           Sum[k \in 0..Len(counts)] ==
             IF k = 0 THEN 0 ELSE Sum[k - 1] + counts[k]
       IN Sum[Len(counts)]
  ELSE IF OperatorOf(q) = "not" THEN Memberships(OperandsOf(q)[1])
  ELSE IF OperatorOf(q) \in {"=", "!="} /\ Len(OperandsOf(q)) # 2 THEN 1
  ELSE 0

(* C10: the clause a compile returns for an expression is balanced and     *)
(* stands in one pair of parentheses, not in two; it has one pair for each *)
(* operation compiled, and one more for each IN list, so no branch at any  *)
(* depth returns its fragment bare or wrapped twice.                       *)
C10_OnePairPerOperation ==
  (pc = "returned" /\ query.where # NoneV) =>
    LET text == where_clause.text
    IN /\ Balanced(text)
       /\ Enclosed(text)
       /\ ~Enclosed(SubSeq(text, 2, Len(text) - 1))
       /\ Opens(text, Len(text)) =
            Operations(query.where) + Memberships(query.where)

(* C10 witness: the nested not of the tests returns                        *)
(* (NOT ((NOT ("id" < 5)) AND ("name" = 'joe'))).                          *)
C10_Witness ==
  /\ pc = "returned"
  /\ dialect = "postgres"
  /\ fields = TestFields
  /\ query.where =
       Op("not", <<Op("and", <<Op("not", <<Op("<", <<Field(1), IntV(5)>>)>>),
                               Op("=", <<Field(2), StrV("joe")>>)>>)>>)
  /\ where_clause.text =
       <<"(", "NOT", " ", "(", "(", "NOT", " ", "(", DQUOTE, "id", DQUOTE,
         " ", "<", " ", "5", ")", ")", " ", "AND", " ", "(", DQUOTE, "name",
         DQUOTE, " ", "=", " ", SQUOTE, "joe", SQUOTE, ")", ")", ")">>

====
